---- MODULE Spec2Model ----
(***************************************************************************)
(* Model of the Bugsnag Cloud Run Functions plugin (src/src/index.js):     *)
(* the wrapped HTTP and CloudEvent handlers, execute(), promisifyHandler() *)
(* and waitForStreamComplete().  One shared client and the invocations of  *)
(* wrapped handlers, which may interleave at every await.                   *)
(***************************************************************************)
EXTENDS Integers, Sequences, FiniteSets, TLC

\* ------------------------------------------------------------------ bounds
MaxConcurrent == 2
MaxCallbackCalls == 2
MaxEmits == 2

Invocations == 1..MaxConcurrent

\* --------------------------------------------------------------- constants
PLUGIN_NAME == "cloud run functions plugin"
FLUSH_TIMEOUT_MS == 2000
CUSTOM_TIMEOUT_MS == 20
SERVER_PLUGIN_NAMES == {"express", "koa", "restify"}

\* -------------------------------------------------------------- JS values
Undefined == [t |-> "undefined", v |-> ""]
Null == [t |-> "null", v |-> ""]
Str(s) == [t |-> "string", v |-> s]
Err(m) == [t |-> "error", v |-> m]
APromise == [t |-> "promise", v |-> ""]
Num(n) == [t |-> "number", v |-> n]
PlainObject == [t |-> "object", v |-> ""]

\* the TypeError raised by reading a property of null
NullTypeError == Err("TypeError: Cannot read properties of null")

Errors == {Err("oh no"), Err("abcxyz")}
Results == {Str("xyz"), Undefined}
\* first argument handed to the completion callback
CallbackErrArgs == {Null, Undefined, Err("oh no"), Str("boom"), Str("")}
\* what a handler may return synchronously
ReturnValues == {Undefined, Null, Str("xyz"), Num("42"), PlainObject, APromise}

\* JavaScript truthiness of a value (the test of `err ? :` and `if (err)`)
Truthy(x) == CASE x.t = "undefined" -> FALSE
               [] x.t = "null" -> FALSE
               [] x.t = "string" -> x.v # ""
               [] OTHER -> TRUE

TypeOf(x) == CASE x.t = "undefined" -> "undefined"
               [] x.t = "string" -> "string"
               [] x.t = "number" -> "number"
               [] OTHER -> "object"

\* isPromise(value): "true", "false", or "throws" when value is null, whose
\* typeof is 'object' and whose property read raises a TypeError
isPromise(x) == IF TypeOf(x) \in {"object", "function"}
                THEN IF x.t = "null" THEN "throws"
                     ELSE IF x.t = "promise" THEN "true" ELSE "false"
                ELSE "false"

\* ---------------------------------------------------------------- promises
Pending == [st |-> "pending", v |-> Undefined]
Fulfilled(x) == [st |-> "fulfilled", v |-> x]
Rejected(x) == [st |-> "rejected", v |-> x]
IsSettled(p) == p.st # "pending"

\* a bug: a later resolve / reject replaces the settled value
Settle_LastWins(p, q) == q

\* resolve(x) / reject(x) of a promise: only the first one takes effect
Settle(p, q) == IF p.st = "pending" THEN q ELSE p

VARIABLES config, plugins, startSessionThrows, metadata, notified, logged,
          live, option, wrapped, inv, req, info

vars == <<config, plugins, startSessionThrows, metadata, notified, logged,
          live, option, wrapped, inv, req, info>>
\* what no step of an invocation changes
fixed == <<plugins, startSessionThrows, live, option, wrapped, req, info>>
client == <<config, metadata, notified, logged, fixed>>

Configs == [autoTrackSessions : BOOLEAN, autoDetectErrors : BOOLEAN,
            unhandledExceptions : BOOLEAN]

PluginSets == {{}, {"express"}, {"koa"}, {"restify"}, {"appDuration"}}

\* a bug: only the first server plugin is looked up
isServerPluginLoaded_FirstOnly == "express" \in plugins

isServerPluginLoaded == \E name \in SERVER_PLUGIN_NAMES : name \in plugins

\* the state of one invocation of a wrapped handler before it is called.
\* attempts/first/firstEvent/sawTrack/sawNotify/signal/observed/flushRes/trace
\* record what the invocation did and met; the other fields are the locals and promises of the code.
NotReturned == [st |-> "none", v |-> Undefined]
Idle == [pc |-> "idle", kind |-> "none", length |-> 0, promisified |-> FALSE,
         flushTimeoutMs |-> 0,
         hstage |-> "none", ret |-> NotReturned, relayed |-> FALSE,
         hp |-> Pending, cbCalls |-> 0,
         attempts |-> 0,
         first |-> [by |-> "none", p |-> Pending, args |-> <<>>],
         firstEvent |-> Pending,
         writableEnded |-> FALSE, listeners |-> {}, isComplete |-> FALSE,
         waiting |-> FALSE, sp |-> Pending, emits |-> 0, completions |-> 0,
         ignored |-> 0, errored |-> FALSE,
         signal |-> [ev |-> "none", arg |-> Undefined],
         observed |-> [at |-> "never", ended |-> FALSE, errored |-> FALSE],
         sawTrack |-> FALSE,
         sawNotify |-> [autoDetectErrors |-> FALSE, unhandledExceptions |-> FALSE],
         result |-> Pending, flushArg |-> 0, flushRes |-> "none",
         outcome |-> Pending,
         trace |-> <<>>]

\* the { flushTimeoutMs } object the application passes to createHttpHandler
\* or createCloudEventHandler: the option left out, or given
Options == {[given |-> FALSE, ms |-> 0], [given |-> TRUE, ms |-> CUSTOM_TIMEOUT_MS]}

\* ({ flushTimeoutMs = FLUSH_TIMEOUT_MS } = {})
FlushTimeoutOf(opt) == IF opt.given THEN opt.ms ELSE FLUSH_TIMEOUT_MS

NotWrapped == [made |-> FALSE, kind |-> "none", length |-> 0,
               promisified |-> FALSE, flushTimeoutMs |-> 0]

NoRequest == [t |-> "none"]

\* the client after load(), before any handler is wrapped
InitClient == /\ config \in Configs
              /\ plugins \in PluginSets
              /\ metadata = [request |-> 0, cloudevent |-> 0]
              /\ notified = <<>>
              /\ logged = <<>>
              /\ option \in Options
              /\ wrapped = NotWrapped
              /\ inv = [i \in Invocations |-> Idle]

Init == /\ InitClient
        /\ startSessionThrows = FALSE
        /\ live = {1}
        /\ req = NoRequest
        /\ info = NoRequest

\* ------------------------------------------------------------- operators
\* a bug: handler.length > 0, so that every handler taking the event is
\* promisified
UsesCallback_OffByOne(kind, len) == kind = "event" /\ len > 0

\* wrapCloudEventHandler: handler.length > 1 selects promisifyHandler
UsesCallback(kind, len) == kind = "event" /\ len > 1

\* whether the _handler of this invocation is the promisified one
CallbackBased(r) == r.promisified

\* a bug: both wrappers record under 'request'
Namespace_AlwaysRequest(kind) == "request"

\* the namespace of addMetadata: 'request' in wrapHttpHandler, 'cloudevent'
\* in wrapCloudEventHandler
Namespace(kind) == IF kind = "http" THEN "request" ELSE "cloudevent"

\* a bug: autoTrackSessions is taken at its default instead of being read
ShouldStartSession_Default(cfg) == ~isServerPluginLoaded

\* execute, line 68
ShouldStartSession(cfg) == cfg.autoTrackSessions /\ ~isServerPluginLoaded

\* a bug: enabledErrorTypes.unhandledExceptions is not consulted
ShouldNotify_DetectOnly(cfg) == cfg.autoDetectErrors

\* execute, line 75
ShouldNotify(cfg) == cfg.autoDetectErrors /\ cfg.unhandledExceptions

\* a bug: the report is made in the finally block, whatever the outcome
Report_Always(failed, cfg) == ShouldNotify(cfg)

\* execute, lines 74-75: only the catch block reports
Report(failed, cfg) == failed /\ ShouldNotify(cfg)

\* a bug: the error is reported as a handled warning
HandledState_Warning == [severity |-> "warning", unhandled |-> FALSE,
                         severityReason |-> [type |-> "handledException"]]

\* execute, lines 76-80
HandledState == [severity |-> "error", unhandled |-> TRUE,
                 severityReason |-> [type |-> "unhandledException"]]

\* client.Event.create(err, true, handledState, PLUGIN_NAME, 1) as _notify
\* receives it; the event carries the client's metadata of that moment
CreateEvent(i, err) == [by |-> i, error |-> err, unhandled |-> TRUE,
                        handledState |-> HandledState, plugin |-> PLUGIN_NAME,
                        metadata |-> metadata]

\* one call of resolve or reject on the promise execute awaits
AttemptWith(r, who, q, args) ==
    [r EXCEPT !.hp = Settle(r.hp, q),
              !.attempts = r.attempts + 1,
              !.first = IF r.attempts = 0
                        THEN [by |-> who, p |-> q, args |-> args]
                        ELSE r.first]
Attempt(r, who, q) == AttemptWith(r, who, q, <<>>)

\* a bug: only Error objects are taken as errors (err instanceof Error)
CallbackOutcome_ErrorsOnly(err, response) ==
    IF err.t = "error" THEN Rejected(err) ELSE Fulfilled(response)

\* the synthesized completion callback: err ? reject(err) : resolve(response)
CallbackOutcome(err, response) ==
    IF Truthy(err) THEN Rejected(err) ELSE Fulfilled(response)

\* a bug: the flush error escapes the finally block and replaces the outcome
FinalOutcome_FlushError(result, flushOk) ==
    IF flushOk THEN result ELSE Rejected(Err("flush timed out"))

\* what the finally block leaves as the outcome of execute: the completion of
\* the try/catch, whatever the flush did
FinalOutcome(result, flushOk) == result

\* a bug: the message is logged bare
LogLine_NoPrefix(message) == <<message>>

\* `Delivery may be unsuccessful: ${err.message}` for the in-flight plugin's
\* timeout error
TimeoutMessage(ms) == <<"flush timed out after ", ms, "ms">>
LogLine(message) == <<"Delivery may be unsuccessful: ", message>>

\* a bug: the argument of the notification is not looked at
complete_AlwaysResolve(r, err) ==
    IF r.isComplete THEN r
    ELSE [r EXCEPT !.isComplete = TRUE,
                   !.listeners = {},
                   !.completions = r.completions + 1,
                   !.sp = Settle(r.sp, Fulfilled(Str("stream")))]

\* a bug: the listeners are not removed on completion
complete_KeepListeners(r, err) ==
    IF r.isComplete THEN r
    ELSE [r EXCEPT !.isComplete = TRUE,
                   !.completions = r.completions + 1,
                   !.sp = Settle(r.sp, IF Truthy(err) THEN Rejected(err)
                                       ELSE Fulfilled(Str("stream")))]

\* complete(err) of waitForStreamComplete
complete(r, err) ==
    IF r.isComplete THEN r
    ELSE [r EXCEPT !.isComplete = TRUE,
                   !.listeners = {},
                   !.completions = r.completions + 1,
                   !.sp = Settle(r.sp, IF Truthy(err) THEN Rejected(err)
                                       ELSE Fulfilled(Str("stream")))]

\* stream.emit(ev, arg): a `once` listener is removed, then called
emit(r, ev, arg) ==
    IF ev \in r.listeners
    THEN complete([r EXCEPT !.listeners = r.listeners \ {ev}], arg)
    ELSE r

\* a bug: the writableEnded test is missing
waitForStreamComplete_NoFastPath(r) ==
    [r EXCEPT !.waiting = TRUE, !.listeners = {"error", "end", "finish"},
              !.observed = [at |-> "called", ended |-> r.writableEnded,
                            errored |-> r.errored]]

\* waitForStreamComplete(stream)
waitForStreamComplete(r) ==
    LET seen == [r EXCEPT !.observed = [at |-> "called",
                                        ended |-> r.writableEnded,
                                        errored |-> r.errored]]
    IN IF r.writableEnded
       THEN [seen EXCEPT !.waiting = TRUE, !.sp = Fulfilled(Str("stream"))]
       ELSE [seen EXCEPT !.waiting = TRUE,
                         !.listeners = {"error", "end", "finish"}]

\* --------------------------------------------------------------- actions
\* The application creates its handler: createHttpHandler(option)(handler) or
\* createCloudEventHandler(option)(handler), for a handler declaring len
\* parameters.
Wrap(kind, len) ==
    /\ ~wrapped.made
    /\ kind = "http" => len = 2
    /\ wrapped' = [made |-> TRUE, kind |-> kind, length |-> len,
                   promisified |-> UsesCallback(kind, len),
                   flushTimeoutMs |-> FlushTimeoutOf(option)]
    /\ UNCHANGED <<config, plugins, startSessionThrows, metadata, notified,
                   logged, live, option, inv, req, info>>

\* The application sets flushTimeoutMs on its options object after the
\* handler was created (followed until the invocations have started).
ChangeOption(opt) ==
    /\ wrapped.made
    /\ ~option.given
    /\ opt.given
    /\ \E i \in live : inv[i].pc = "idle"
    /\ option' = opt
    /\ UNCHANGED <<config, plugins, startSessionThrows, metadata, notified,
                   logged, live, wrapped, inv, req, info>>

\* An invocation is busy while JavaScript is running for it or is due to
\* before the event loop takes the next request: during the synchronous part
\* of its handler, and while a reaction to a settled promise is queued.
Busy(r) ==
    \/ r.hstage = "sync"
    \/ r.ret.st \in {"fulfilled", "rejected"} /\ ~r.relayed
    \/ r.waiting /\ IsSettled(r.sp)
    \/ r.pc = "running" /\ IsSettled(r.hp)

\* a bug: startSession is called inside the try block, so that its error
\* takes the path of a handler error
Invoke_SessionInTry(i) ==
    /\ i \in live
    /\ wrapped.made
    /\ inv[i].pc = "idle"
    /\ \A j \in live : ~Busy(inv[j])
    /\ metadata' = [metadata EXCEPT ![Namespace(wrapped.kind)] = i]
    /\ LET session == ShouldStartSession(config)
           started == [inv[i] EXCEPT
                         !.kind = wrapped.kind, !.length = wrapped.length,
                         !.promisified = wrapped.promisified,
                         !.flushTimeoutMs = wrapped.flushTimeoutMs,
                         !.sawTrack = config.autoTrackSessions,
                         !.trace = <<"addMetadata">> \o
                                   (IF session THEN <<"startSession">> ELSE <<>>)]
       IN IF session /\ startSessionThrows
          THEN inv' = [inv EXCEPT ![i] =
                         [started EXCEPT !.pc = "running",
                                         !.hp = Rejected(Err("session"))]]
          ELSE inv' = [inv EXCEPT ![i] =
                         [started EXCEPT !.pc = "running", !.hstage = "sync",
                                         !.trace = started.trace \o <<"handler">>]]
    /\ UNCHANGED <<config, notified, logged, fixed>>

\* The wrapped function is called: addMetadata, then execute up to its first
\* await (startSession, then the call of the handler).  The host runtime
\* calls it from the event loop, when no other invocation is busy.
Invoke(i) ==
    /\ i \in live
    /\ wrapped.made
    /\ inv[i].pc = "idle"
    /\ \A j \in live : ~Busy(inv[j])
    /\ metadata' = [metadata EXCEPT ![Namespace(wrapped.kind)] = i]
    /\ LET session == ShouldStartSession(config)
           started == [inv[i] EXCEPT
                         !.kind = wrapped.kind, !.length = wrapped.length,
                         !.promisified = wrapped.promisified,
                         !.flushTimeoutMs = wrapped.flushTimeoutMs,
                         !.sawTrack = config.autoTrackSessions,
                         !.trace = <<"addMetadata">> \o
                                   (IF session THEN <<"startSession">> ELSE <<>>)]
       IN IF session /\ startSessionThrows
          THEN inv' = [inv EXCEPT ![i] =
                         [started EXCEPT !.pc = "done",
                                         !.outcome = Rejected(Err("session"))]]
          ELSE inv' = [inv EXCEPT ![i] =
                         [started EXCEPT !.pc = "running", !.hstage = "sync",
                                         !.trace = started.trace \o <<"handler">>]]
    /\ UNCHANGED <<config, notified, logged, fixed>>

\* The user handler invokes the completion callback it was given.
HandlerCallback(i, err, response) ==
    /\ inv[i].hstage \in {"sync", "returned"}
    /\ CallbackBased(inv[i])
    /\ inv[i].cbCalls < MaxCallbackCalls
    /\ LET q == CallbackOutcome(err, response)
           r == AttemptWith(inv[i], "callback", q, <<err, response>>)
       IN inv' = [inv EXCEPT ![i] =
                    [r EXCEPT !.cbCalls = inv[i].cbCalls + 1,
                              !.firstEvent = Settle(r.firstEvent, q)]]
    /\ UNCHANGED client

\* a bug: the thrown error replaces a settlement already made
HandlerThrow_Overrides(i, e) ==
    /\ inv[i].hstage = "sync"
    /\ LET r == Attempt(inv[i], "throw", Rejected(e))
       IN inv' = [inv EXCEPT ![i] =
                    [r EXCEPT !.hstage = "returned",
                              !.hp = Rejected(e),
                              !.ret = [st |-> "threw", v |-> e]]]
    /\ UNCHANGED client

\* The user handler throws synchronously.
HandlerThrow(i, e) ==
    /\ inv[i].hstage = "sync"
    /\ LET r == Attempt(inv[i], "throw", Rejected(e))
       IN inv' = [inv EXCEPT ![i] =
                    [r EXCEPT !.hstage = "returned",
                              !.ret = [st |-> "threw", v |-> e]]]
    /\ UNCHANGED client

\* The user handler returns x (a plain value or a promise).
HandlerReturn(i, x) ==
    /\ inv[i].hstage = "sync"
    /\ LET r == [inv[i] EXCEPT !.hstage = "returned"]
       IN IF CallbackBased(r)
          THEN CASE isPromise(x) = "true" ->
                      inv' = [inv EXCEPT ![i] = [r EXCEPT !.ret = Pending]]
                 [] isPromise(x) = "false" ->
                      inv' = [inv EXCEPT ![i] =
                                [r EXCEPT !.ret = [st |-> "value", v |-> x]]]
                 [] OTHER ->
                      inv' = [inv EXCEPT ![i] =
                                [Attempt(r, "isPromise", Rejected(NullTypeError))
                                   EXCEPT !.ret = [st |-> "value", v |-> x]]]
          ELSE inv' = [inv EXCEPT ![i] =
                         [r EXCEPT !.ret = IF x.t = "promise" THEN Pending
                                           ELSE Fulfilled(x)]]
    /\ UNCHANGED client

\* The promise the user handler returned settles.
FutureSettle(i, q) ==
    /\ inv[i].ret.st = "pending"
    /\ inv' = [inv EXCEPT ![i].ret = q,
                          ![i].firstEvent = IF CallbackBased(inv[i])
                                            THEN Settle(inv[i].firstEvent, q)
                                            ELSE inv[i].firstEvent]
    /\ UNCHANGED client

\* a bug: the HTTP wrapper waits for the response whatever the handler's
\* result, as if waitForStreamComplete sat in a finally block
FutureRelay_AlwaysWait(i) ==
    /\ inv[i].ret.st \in {"fulfilled", "rejected"}
    /\ ~inv[i].relayed
    /\ LET r == [inv[i] EXCEPT !.relayed = TRUE]
       IN IF r.kind = "http"
          THEN inv' = [inv EXCEPT ![i] = waitForStreamComplete(r)]
          ELSE inv' = [inv EXCEPT ![i] = Attempt(r, "future", r.ret)]
    /\ UNCHANGED client

\* a bug: promisifyHandler relays only the fulfilment, result.then(resolve)
FutureRelay_NoCatch(i) ==
    /\ inv[i].ret.st \in {"fulfilled", "rejected"}
    /\ ~inv[i].relayed
    /\ LET r == [inv[i] EXCEPT !.relayed = TRUE]
       IN IF r.kind = "http" /\ r.ret.st = "fulfilled"
          THEN inv' = [inv EXCEPT ![i] = waitForStreamComplete(r)]
          ELSE IF CallbackBased(r) /\ r.ret.st = "rejected"
               THEN inv' = [inv EXCEPT ![i] = r]
               ELSE inv' = [inv EXCEPT ![i] = Attempt(r, "future", r.ret)]
    /\ UNCHANGED client

\* The reaction to the handler's settled result runs: result.then(resolve)
\* .catch(reject) in promisifyHandler, `await handler(...)` in execute, and
\* `await handler(req, res)` followed by waitForStreamComplete(res) in the
\* HTTP wrapper.
FutureRelay(i) ==
    /\ inv[i].ret.st \in {"fulfilled", "rejected"}
    /\ ~inv[i].relayed
    /\ LET r == [inv[i] EXCEPT !.relayed = TRUE]
       IN IF r.kind = "http" /\ r.ret.st = "fulfilled"
          THEN inv' = [inv EXCEPT ![i] = waitForStreamComplete(r)]
          ELSE inv' = [inv EXCEPT ![i] = Attempt(r, "future", r.ret)]
    /\ UNCHANGED client

\* res.end() is called on the response.
StreamEnd(i) ==
    /\ inv[i].kind = "http"
    /\ inv[i].hstage # "none"
    /\ ~inv[i].writableEnded
    /\ inv' = [inv EXCEPT ![i].writableEnded = TRUE]
    /\ UNCHANGED client

\* The response emits 'error' (with an error) or, once it was ended, 'end'
\* or 'finish'.
StreamEmit(i, ev, arg) ==
    /\ inv[i].kind = "http"
    /\ inv[i].hstage # "none"
    /\ inv[i].emits < MaxEmits
    /\ (ev = "error") <=> (arg # Undefined)
    /\ ev \in {"end", "finish"} => inv[i].writableEnded
    /\ inv' = [inv EXCEPT ![i] =
                 [emit(inv[i], ev, arg) EXCEPT
                    !.emits = inv[i].emits + 1,
                    !.errored = inv[i].errored \/ ev = "error",
                    !.signal = IF inv[i].listeners # {} /\ inv[i].signal.ev = "none"
                               THEN [ev |-> ev, arg |-> arg]
                               ELSE inv[i].signal,
                    !.ignored = inv[i].ignored
                                + (IF inv[i].isComplete THEN 1 ELSE 0)]]
    /\ UNCHANGED client

\* a bug: the promise of waitForStreamComplete is not awaited
StreamAwaited_NoAwait(i) ==
    /\ inv[i].waiting
    /\ LET r == [inv[i] EXCEPT !.waiting = FALSE]
       IN inv' = [inv EXCEPT ![i] = Attempt(r, "stream", Fulfilled(Undefined))]
    /\ UNCHANGED client

\* a bug: the failure of waitForStreamComplete's promise is swallowed
StreamAwaited_IgnoreError(i) ==
    /\ inv[i].waiting
    /\ IsSettled(inv[i].sp)
    /\ LET r == [inv[i] EXCEPT !.waiting = FALSE]
       IN inv' = [inv EXCEPT ![i] = Attempt(r, "stream", Fulfilled(Undefined))]
    /\ UNCHANGED client

\* `await waitForStreamComplete(res)` resumes and the HTTP _handler ends.
StreamAwaited(i) ==
    /\ inv[i].waiting
    /\ IsSettled(inv[i].sp)
    /\ LET r == [inv[i] EXCEPT !.waiting = FALSE]
       IN inv' = [inv EXCEPT ![i] =
                    Attempt(r, "stream", IF r.sp.st = "fulfilled"
                                         THEN Fulfilled(Undefined) ELSE r.sp)]
    /\ UNCHANGED client

\* a bug: the flush follows the try/catch instead of sitting in a finally
\* block, so the rethrown error skips it
ExecuteSettled_NoFinally(i) ==
    /\ inv[i].pc = "running"
    /\ IsSettled(inv[i].hp)
    /\ LET failed == inv[i].hp.st = "rejected"
           report == Report(failed, config)
       IN /\ notified' = IF report
                         THEN Append(notified, CreateEvent(i, inv[i].hp.v))
                         ELSE notified
          /\ inv' = [inv EXCEPT
                       ![i].pc = IF failed THEN "done" ELSE "flushing",
                       ![i].result = inv[i].hp,
                       ![i].outcome = IF failed THEN inv[i].hp ELSE Pending,
                       ![i].flushArg = IF failed THEN 0 ELSE inv[i].flushTimeoutMs,
                       ![i].trace = inv[i].trace
                                    \o (IF report THEN <<"notify">> ELSE <<>>)
                                    \o (IF failed THEN <<"return">> ELSE <<"flush">>)]
    /\ UNCHANGED <<config, metadata, logged, fixed>>

\* a bug: the handler's promise is kept in a variable the invocations share,
\* so that execute resumes with the promise of whichever invocation settled
ExecuteSettled_SharedResult(i) ==
    /\ inv[i].pc = "running"
    /\ \E j \in live :
         /\ IsSettled(inv[j].hp)
         /\ LET failed == inv[j].hp.st = "rejected"
                report == Report(failed, config)
            IN /\ notified' = IF report
                              THEN Append(notified, CreateEvent(i, inv[j].hp.v))
                              ELSE notified
               /\ inv' = [inv EXCEPT
                            ![i].pc = "flushing",
                            ![i].result = inv[j].hp,
                            ![i].flushArg = inv[i].flushTimeoutMs,
                            ![i].trace = inv[i].trace
                                         \o (IF report THEN <<"notify">> ELSE <<>>)
                                         \o <<"flush">>]
    /\ UNCHANGED <<config, metadata, logged, fixed>>

\* a bug: the flush is started before the catch block reports the error
ExecuteSettled_ReportAfterFlush(i) ==
    /\ inv[i].pc = "running"
    /\ IsSettled(inv[i].hp)
    /\ LET failed == inv[i].hp.st = "rejected"
           report == Report(failed, config)
       IN /\ notified' = IF report
                         THEN Append(notified, CreateEvent(i, inv[i].hp.v))
                         ELSE notified
          /\ inv' = [inv EXCEPT
                       ![i].pc = "flushing",
                       ![i].result = inv[i].hp,
                       ![i].sawNotify = IF failed
                                    THEN [autoDetectErrors |-> config.autoDetectErrors,
                                          unhandledExceptions |-> config.unhandledExceptions]
                                    ELSE inv[i].sawNotify,
                       ![i].flushArg = inv[i].flushTimeoutMs,
                       ![i].trace = inv[i].trace
                                    \o <<"flush">>
                                    \o (IF report THEN <<"notify">> ELSE <<>>)]
    /\ UNCHANGED <<config, metadata, logged, fixed>>

\* `await handler(..._arguments)` resumes in execute: the catch block when
\* the handler failed, then the finally block up to the call of flush.
ExecuteSettled(i) ==
    /\ inv[i].pc = "running"
    /\ IsSettled(inv[i].hp)
    /\ LET failed == inv[i].hp.st = "rejected"
           report == Report(failed, config)
       IN /\ notified' = IF report
                         THEN Append(notified, CreateEvent(i, inv[i].hp.v))
                         ELSE notified
          /\ inv' = [inv EXCEPT
                       ![i].pc = "flushing",
                       ![i].result = inv[i].hp,
                       ![i].sawNotify = IF failed
                                    THEN [autoDetectErrors |-> config.autoDetectErrors,
                                          unhandledExceptions |-> config.unhandledExceptions]
                                    ELSE inv[i].sawNotify,
                       ![i].flushArg = inv[i].flushTimeoutMs,
                       ![i].trace = inv[i].trace
                                    \o (IF report THEN <<"notify">> ELSE <<>>)
                                    \o <<"flush">>]
    /\ UNCHANGED <<config, metadata, logged, fixed>>

\* The flush settles (in time, or with the timeout error), the error is
\* logged, and execute's promise settles towards the caller.
FlushDone(i, flushOk) ==
    /\ inv[i].pc = "flushing"
    /\ logged' = IF flushOk THEN logged
                 ELSE Append(logged, [by |-> i,
                                      line |-> LogLine(TimeoutMessage(inv[i].flushArg))])
    /\ inv' = [inv EXCEPT
                 ![i].pc = "done",
                 ![i].flushRes = IF flushOk THEN "ok" ELSE "timeout",
                 ![i].outcome = FinalOutcome(inv[i].result, flushOk),
                 ![i].trace = inv[i].trace
                              \o (IF flushOk THEN <<>> ELSE <<"log">>)
                              \o <<"return">>]
    /\ UNCHANGED <<config, metadata, notified, fixed>>

\* The application changes the client's configuration (each flag followed
\* for as long as an invocation can still read it: autoTrackSessions until
\* execute has started, the error flags until the catch block).
Reconfigure(c) ==
    /\ c # config
    /\ \E i \in live : inv[i].pc \in {"idle", "running"}
    /\ c.autoTrackSessions # config.autoTrackSessions
         => \E i \in live : inv[i].pc = "idle"
    /\ config' = c
    /\ UNCHANGED <<metadata, notified, logged, fixed, inv>>

Next ==
    \/ \E kind \in {"http", "event"}, len \in {0, 1, 2} : Wrap(kind, len)
    \/ \E opt \in Options : ChangeOption(opt)
    \/ \E i \in Invocations : Invoke(i)
    \/ \E i \in Invocations, err \in CallbackErrArgs, response \in Results :
          HandlerCallback(i, err, response)
    \/ \E i \in Invocations, e \in Errors : HandlerThrow(i, e)
    \/ \E i \in Invocations, x \in ReturnValues : HandlerReturn(i, x)
    \/ \E i \in Invocations, q \in {Fulfilled(x) : x \in Results}
                                   \cup {Rejected(e) : e \in Errors} :
          FutureSettle(i, q)
    \/ \E i \in Invocations : FutureRelay(i)
    \/ \E i \in Invocations : StreamEnd(i)
    \/ \E i \in Invocations, ev \in {"error", "end", "finish"},
          arg \in Errors \cup {Undefined} : StreamEmit(i, ev, arg)
    \/ \E i \in Invocations : StreamAwaited(i)
    \/ \E i \in Invocations : ExecuteSettled(i)
    \/ \E i \in Invocations : FlushDone(i, TRUE) \/ FlushDone(i, FALSE)
    \/ \E c \in Configs : Reconfigure(c)

Spec == Init /\ [][Next]_vars

\* The steps the runtime itself takes are not postponed for ever: a settled
\* promise's reactions run (FutureRelay, StreamAwaited, ExecuteSettled), the
\* timer of flush(flushTimeoutMs) fires, and a response that was ended emits
\* 'finish'.  Nothing is assumed of the handler or of the delivery.
SpecFair ==
    /\ Spec
    /\ \A i \in Invocations :
         /\ WF_vars(FutureRelay(i))
         /\ WF_vars(StreamAwaited(i))
         /\ WF_vars(ExecuteSettled(i))
         /\ WF_vars(FlushDone(i, FALSE))
         /\ WF_vars(StreamEmit(i, "finish", Undefined))

\* ------------------------------------------------ a failing startSession
\* A client whose startSession() raises an error.
InitThrow ==
    /\ InitClient
    /\ startSessionThrows = TRUE
    /\ live = {1}
    /\ req = NoRequest
    /\ info = NoRequest

SpecThrow == InitThrow /\ [][Next]_vars

\* ------------------------------------------- two invocations on a client
\* Two invocations of the wrapped handler share the client and interleave
\* freely.  Each handler fails with an error of its own, so that a report or
\* an outcome can be told from the other invocation's; a response ends
\* without error.
ErrorOf(i) == IF i = 1 THEN Err("oh no") ELSE Err("abcxyz")

InitTwo ==
    /\ config \in {c \in Configs : c.autoDetectErrors /\ c.unhandledExceptions}
    /\ plugins = {}
    /\ metadata = [request |-> 0, cloudevent |-> 0]
    /\ notified = <<>>
    /\ logged = <<>>
    /\ option = [given |-> FALSE, ms |-> 0]
    /\ wrapped = NotWrapped
    /\ inv = [i \in Invocations |-> Idle]
    /\ startSessionThrows = FALSE
    /\ live = {1, 2}
    /\ req = NoRequest
    /\ info = NoRequest

NextTwo ==
    \/ \E kind \in {"http", "event"}, len \in {1, 2} : Wrap(kind, len)
    \/ \E i \in Invocations : Invoke(i)
    \/ \E i \in Invocations : \E err \in {Null, ErrorOf(i)} :
          HandlerCallback(i, err, Undefined)
    \/ \E i \in Invocations : HandlerThrow(i, ErrorOf(i))
    \/ \E i \in Invocations, x \in {Undefined, APromise} : HandlerReturn(i, x)
    \/ \E i \in Invocations :
          \E q \in {Fulfilled(Str("xyz")), Rejected(ErrorOf(i))} : FutureSettle(i, q)
    \/ \E i \in Invocations : FutureRelay(i)
    \/ \E i \in Invocations : StreamEnd(i)
    \/ \E i \in Invocations : StreamEmit(i, "finish", Undefined)
    \/ \E i \in Invocations : StreamAwaited(i)
    \/ \E i \in Invocations : ExecuteSettled(i)
    \/ \E i \in Invocations : FlushDone(i, TRUE) \/ FlushDone(i, FALSE)

SpecTwo == InitTwo /\ [][NextTwo]_vars

\* ------------------------------------------------------ request snapshot
\* Strings are sequences of characters.
HTTP == <<"h", "t", "t", "p">>
HTTPS == <<"h", "t", "t", "p", "s">>
ExampleCom == <<"e", "x", "a", "m", "p", "l", "e", ".", "c", "o", "m">>
PathAB == <<"/", "a", "/", "b">>
DigitChars == <<"0", "1", "2", "3", "4", "5", "6", "7", "8", "9">>
Letters == {"a", "b", "c", "e", "h", "i", "l", "m", "o", "p", "s", "t", "x"}

\* `${portNumber}`: the decimal digits of a number
RECURSIVE Decimal(_)
Decimal(n) ==
    IF n < 10 THEN <<DigitChars[n + 1]>>
    ELSE Decimal(n \div 10) \o <<DigitChars[(n % 10) + 1]>>

IsDigit(c) == \E d \in DOMAIN DigitChars : DigitChars[d] = c

\* the length of the longest suffix of s made of digits
RECURSIVE TrailingDigits(_)
TrailingDigits(s) ==
    IF s # <<>> /\ IsDigit(s[Len(s)])
    THEN 1 + TrailingDigits(SubSeq(s, 1, Len(s) - 1))
    ELSE 0

\* .replace(/:\d+$/, '')
StripPort(s) ==
    LET k == TrailingDigits(s)
    IN IF k >= 1 /\ Len(s) > k /\ s[Len(s) - k] = ":"
       THEN SubSeq(s, 1, Len(s) - k - 1)
       ELSE s

\* The requests followed.  A string that is undefined or '' is <<>> (either
\* way it is falsy); protocol tells undefined from a string; a port of 0 is
\* a port that is undefined or 0; without connection there is no address.
Ports == {0, 80, 443, 8080}
Protocols == {[defined |-> FALSE, s |-> <<>>], [defined |-> TRUE, s |-> HTTP],
              [defined |-> TRUE, s |-> HTTPS]}
Connections == {[present |-> FALSE, encrypted |-> FALSE, port |-> 0]}
               \cup [present : {TRUE}, encrypted : BOOLEAN, port : Ports]
Hostnames == {<<>>, ExampleCom}
Hosts == {<<>>, <<"a", ".", "i", "o", ":", "8", "0", "8", "0">>}
HeaderHosts == {<<>>, <<"b", ".", "i", "o", ":", "8", "0">>,
                <<"b", ".", "i", "o", ":", "8", "a">>,
                <<"b", ".", "i", "o", ":">>}
Urls == {PathAB, HTTP \o <<":", "/", "/", "c", ".", "i", "o">> \o PathAB}

\* req.params: undefined, or an object with some of the keys 0 and id
ParamKeys == {"0", "id"}
ParamValues == {Undefined, Str("42")}
Object(f) == [t |-> "object", v |-> f]
Params == {Undefined}
          \cup {Object(f) : f \in UNION {[K -> ParamValues] : K \in SUBSET ParamKeys}}
Requests == [t : {"req"}, protocol : Protocols, connection : Connections,
             hostname : Hostnames, host : Hosts, headerHost : HeaderHosts,
             url : Urls, params : Params]

\* extractObject(req, 'params') of @bugsnag/core: the collection when it is
\* an object with at least one key, undefined otherwise
extractObject(x) ==
    IF x.t = "object" /\ DOMAIN x.v # {} THEN x ELSE Undefined

\* f without the key k
Delete(f, k) == [j \in (DOMAIN f) \ {k} |-> f[j]]

\* lines 25-28
portNumber(r) == IF r.connection.present THEN r.connection.port ELSE 0
port(r) ==
    IF portNumber(r) = 0 \/ portNumber(r) = 80 \/ portNumber(r) = 443
    THEN <<>>
    ELSE <<":">> \o Decimal(portNumber(r))

\* line 29, when it does not raise
protocol(r) ==
    IF r.protocol.defined THEN r.protocol.s
    ELSE IF r.connection.encrypted THEN HTTPS ELSE HTTP

\* line 30
hostname(r) ==
    StripPort(IF r.hostname # <<>> THEN r.hostname
              ELSE IF r.host # <<>> THEN r.host
              ELSE r.headerHost)

\* line 31
url(r) == protocol(r) \o <<":", "/", "/">> \o hostname(r) \o port(r) \o r.url

\* extractRequestInfo(req): reading req.connection.encrypted of a request
\* without connection raises a TypeError
extractRequestInfo(r) ==
    IF ~r.protocol.defined /\ ~r.connection.present
    THEN [t |-> "threw", url |-> <<>>, path |-> <<>>, params |-> Undefined]
    ELSE [t |-> "info", url |-> url(r), path |-> r.url,
          params |-> extractObject(r.params)]

\* a bug: the emptied params object is kept
getRequestInfo_KeepEmpty(r) ==
    LET requestInfo == extractRequestInfo(r)
    IN IF requestInfo.params.t = "object" /\ "0" \in DOMAIN requestInfo.params.v
       THEN [requestInfo EXCEPT !.params = Object(Delete(requestInfo.params.v, "0"))]
       ELSE requestInfo

\* getRequestInfo(req), as far as url, path and params go
getRequestInfo(r) ==
    LET requestInfo == extractRequestInfo(r)
    IN IF requestInfo.params.t = "object" /\ "0" \in DOMAIN requestInfo.params.v
       THEN LET rest == Delete(requestInfo.params.v, "0")
            IN [requestInfo EXCEPT
                  !.params = IF DOMAIN rest = {} THEN Undefined ELSE Object(rest)]
       ELSE requestInfo

\* The snapshot of one request is taken.
TakeSnapshot ==
    /\ req \in Requests
    /\ info = NoRequest
    /\ info' = getRequestInfo(req)
    /\ UNCHANGED <<config, plugins, startSessionThrows, metadata, notified,
                   logged, live, option, wrapped, inv, req>>

InitUrl ==
    /\ config = [autoTrackSessions |-> TRUE, autoDetectErrors |-> TRUE,
                 unhandledExceptions |-> TRUE]
    /\ plugins = {}
    /\ metadata = [request |-> 0, cloudevent |-> 0]
    /\ notified = <<>>
    /\ logged = <<>>
    /\ option = [given |-> FALSE, ms |-> 0]
    /\ wrapped = NotWrapped
    /\ inv = [i \in Invocations |-> Idle]
    /\ startSessionThrows = FALSE
    /\ live = {}
    /\ req \in Requests
    /\ info = NoRequest

NextUrl == TakeSnapshot

SpecUrl == InitUrl /\ [][NextUrl]_vars

\* ----------------------------------------------------------------- claims
Count(seq, x) == Cardinality({k \in DOMAIN seq : seq[k] = x})
Before(seq, a, b) ==
    \A j, k \in DOMAIN seq : (seq[j] = a /\ seq[k] = b) => j < k
ReportsBy(i) == SelectSeq(notified, LAMBDA e : e.by = i)
Started(r) == r.pc \in {"flushing", "done"}

\* C1: when the handler fails with E while autoDetectErrors and
\* enabledErrorTypes.unhandledExceptions are both true, exactly one error
\* report is submitted, for E, with handled state severity 'error', unhandled
\* true, severityReason type 'unhandledException', and the wrapped function's
\* future rejects with that same E.
C1_OneReportAndRethrow ==
    \A i \in Invocations :
      LET r == inv[i] IN
        (/\ Started(r)
         /\ r.hp.st = "rejected"
         /\ r.sawNotify.autoDetectErrors
         /\ r.sawNotify.unhandledExceptions)
        => /\ Len(ReportsBy(i)) = 1
           /\ ReportsBy(i)[1].error = r.hp.v
           /\ ReportsBy(i)[1].unhandled = TRUE
           /\ ReportsBy(i)[1].handledState.severity = "error"
           /\ ReportsBy(i)[1].handledState.unhandled = TRUE
           /\ ReportsBy(i)[1].handledState.severityReason.type
                = "unhandledException"
           /\ Count(r.trace, "notify") = 1
           /\ (r.pc = "done" => r.outcome = Rejected(r.hp.v))

C1_Witness ==
    \E i \in Invocations :
      /\ inv[i].pc = "done"
      /\ inv[i].kind = "http"
      /\ inv[i].hp = Rejected(Err("oh no"))
      /\ inv[i].sawNotify.autoDetectErrors
      /\ inv[i].sawNotify.unhandledExceptions
      /\ Len(ReportsBy(i)) = 1
      /\ inv[i].outcome = Rejected(Err("oh no"))

C3_OutcomeIsHandlers ==
    \A i \in Invocations :
      (inv[i].pc = "done" /\ IsSettled(inv[i].hp)) => inv[i].outcome = inv[i].hp

C3_Witness ==
    \E i \in Invocations :
      /\ inv[i].pc = "done"
      /\ Count(inv[i].trace, "log") = 1
      /\ inv[i].hp = Fulfilled(Str("xyz"))
      /\ inv[i].outcome = Fulfilled(Str("xyz"))

\* C4: when the handler fails with E while autoDetectErrors is false or
\* enabledErrorTypes.unhandledExceptions is false, no error report is
\* submitted and the wrapped function's future still rejects with E.
C4_NoReportStillRethrown ==
    \A i \in Invocations :
      LET r == inv[i] IN
        (/\ Started(r)
         /\ r.hp.st = "rejected"
         /\ (~r.sawNotify.autoDetectErrors \/ ~r.sawNotify.unhandledExceptions))
        => /\ Len(ReportsBy(i)) = 0
           /\ Count(r.trace, "notify") = 0
           /\ (r.pc = "done" => r.outcome = Rejected(r.hp.v))

C4_Witness ==
    \E i \in Invocations :
      /\ inv[i].pc = "done"
      /\ inv[i].hp.st = "rejected"
      /\ inv[i].sawNotify.autoDetectErrors
      /\ ~inv[i].sawNotify.unhandledExceptions
      /\ notified = <<>>
      /\ inv[i].outcome = inv[i].hp

\* C5: when the handler succeeds the executor submits no error report,
\* whatever autoDetectErrors and unhandledExceptions are, and the wrapped
\* function's future resolves.
C5_SuccessNeverReports ==
    \A i \in Invocations :
      LET r == inv[i] IN
        (Started(r) /\ r.hp.st = "fulfilled")
        => /\ Len(ReportsBy(i)) = 0
           /\ Count(r.trace, "notify") = 0
           /\ (r.pc = "done" => r.outcome.st = "fulfilled")

C5_Witness ==
    \E i \in Invocations :
      /\ inv[i].pc = "done"
      /\ inv[i].hp.st = "fulfilled"
      /\ config.autoDetectErrors /\ config.unhandledExceptions
      /\ notified = <<>>
      /\ inv[i].outcome.st = "fulfilled"

\* C6: per invocation startSession() is called exactly once when
\* autoTrackSessions is true and none of 'express', 'koa', 'restify' is
\* loaded, and not at all otherwise, whether the handler succeeds or fails.
C6_SessionCount ==
    \A i \in Invocations :
      LET r == inv[i] IN
        r.pc # "idle"
        => Count(r.trace, "startSession")
             = (IF /\ r.sawTrack
                   /\ "express" \notin plugins
                   /\ "koa" \notin plugins
                   /\ "restify" \notin plugins
                THEN 1 ELSE 0)

C6_Witness ==
    \E i \in Invocations :
      /\ inv[i].pc = "done"
      /\ inv[i].hp.st = "rejected"
      /\ inv[i].sawTrack
      /\ plugins = {"appDuration"}
      /\ Count(inv[i].trace, "startSession") = 1

\* C7: for a callback-based event handler whose completion callback is the
\* first to settle the invocation: called with no error and result r the
\* invocation succeeds with r; called with an Error or a non-empty string as
\* first argument it fails with exactly that error or string.
C7_CallbackDecides ==
    \A i \in Invocations :
      LET r == inv[i] IN
        (CallbackBased(r) /\ r.first.by = "callback")
        => LET err == r.first.args[1]
               response == r.first.args[2]
           IN /\ (err = Null \/ err = Undefined) => r.hp = Fulfilled(response)
              /\ (err.t = "error" \/ (err.t = "string" /\ err.v # ""))
                   => r.hp = Rejected(err)
              /\ r.pc = "done" => r.outcome = r.hp

C7_Witness ==
    \E i \in Invocations :
      /\ inv[i].pc = "done"
      /\ inv[i].length > 1
      /\ inv[i].first.by = "callback"
      /\ inv[i].first.args = <<Str("boom"), Undefined>>
      /\ inv[i].outcome = Rejected(Str("boom"))

\* C8 as stated: of the callback invocations and the settlement of the
\* future the handler returned, the first to occur determines the outcome.
C8_FirstEventWins ==
    \A i \in Invocations :
      LET r == inv[i] IN
        (/\ CallbackBased(r)
         /\ r.ret.st \in {"pending", "fulfilled", "rejected"}
         /\ IsSettled(r.firstEvent)
         /\ r.pc = "done")
        => r.outcome = r.firstEvent

\* C8 amended: exactly one settlement is honored: the first call of resolve
\* or reject on the normalizer's promise (a callback invocation, or the
\* relay of the returned future's settlement, which runs after that
\* settlement) determines the outcome; every later one leaves it unchanged
\* and raises no second report, flush or error.
C8_FirstAttemptWins ==
    \A i \in Invocations :
      LET r == inv[i] IN
        (CallbackBased(r) /\ r.attempts >= 1)
        => /\ r.hp = r.first.p
           /\ Started(r) => r.result = r.first.p
           /\ r.pc = "done" => r.outcome = r.first.p
           /\ Len(ReportsBy(i)) <= 1
           /\ Count(r.trace, "flush") <= 1

C8_Witness ==
    \E i \in Invocations :
      /\ inv[i].pc = "done"
      /\ inv[i].length > 1
      /\ inv[i].first.by = "callback"
      /\ inv[i].cbCalls = 2
      /\ inv[i].relayed
      /\ inv[i].attempts = 3
      /\ inv[i].ret # inv[i].first.p
      /\ inv[i].outcome = inv[i].first.p

\* C9: a handler declared with a callback parameter that returns a future
\* and never invokes the callback settles the invocation through that
\* future: it succeeds with its value or fails with its rejection error,
\* which is reported like any handler error.
C9_AsyncWithCallbackParam ==
    \A i \in Invocations :
      LET r == inv[i] IN
        (/\ CallbackBased(r)
         /\ r.cbCalls = 0
         /\ r.ret.st \in {"pending", "fulfilled", "rejected"})
        => /\ r.hp = (IF r.relayed THEN r.ret ELSE Pending)
           /\ r.pc = "done" =>
                /\ r.outcome = r.ret
                /\ (/\ r.ret.st = "rejected"
                    /\ r.sawNotify.autoDetectErrors
                    /\ r.sawNotify.unhandledExceptions)
                   => (Len(ReportsBy(i)) = 1 /\ ReportsBy(i)[1].error = r.ret.v)

C9_Witness ==
    \E i \in Invocations :
      /\ inv[i].pc = "done"
      /\ inv[i].length > 1
      /\ inv[i].cbCalls = 0
      /\ inv[i].ret = Rejected(Err("abcxyz"))
      /\ inv[i].outcome = Rejected(Err("abcxyz"))
      /\ Len(ReportsBy(i)) = 1

\* C10: the completion awaiter settles exactly once for any sequence of
\* 'error', 'end' and 'finish' notifications: the first notification runs
\* the completion routine, which removes all three subscriptions, and every
\* later notification changes neither the settled outcome nor the listeners.
C10_CompletesOnce ==
    /\ [](\A i \in Invocations :
            /\ inv[i].completions <= 1
            /\ inv[i].isComplete =>
                 /\ inv[i].listeners = {}
                 /\ IsSettled(inv[i].sp)
                 /\ inv[i].completions = 1)
    /\ [][\A i \in Invocations :
            /\ IsSettled(inv[i].sp) => inv'[i].sp = inv[i].sp
            /\ inv'[i].emits = inv[i].emits + 1 =>
                 IF inv[i].listeners # {}
                 THEN /\ inv'[i].listeners = {}
                      /\ inv'[i].isComplete
                      /\ inv'[i].completions = 1
                      /\ IsSettled(inv'[i].sp)
                 ELSE /\ inv'[i].listeners = inv[i].listeners
                      /\ inv'[i].sp = inv[i].sp
                      /\ inv'[i].completions = inv[i].completions
                      /\ inv'[i].hp = inv[i].hp]_vars

C10_Witness ==
    \E i \in Invocations :
      /\ inv[i].isComplete
      /\ inv[i].completions = 1
      /\ inv[i].ignored >= 1
      /\ inv[i].emits = 2
      /\ inv[i].listeners = {}
      /\ inv[i].sp.st = "fulfilled"

\* C11: if the first terminal notification the completion awaiter receives
\* is an error notification its future fails with the error carried by the
\* notification; if it is 'end' or 'finish' it succeeds.
C11_FirstSignalDecides ==
    \A i \in Invocations :
      LET r == inv[i] IN
        r.signal.ev # "none"
        => /\ r.signal.ev = "error" => r.sp = Rejected(r.signal.arg)
           /\ r.signal.ev \in {"end", "finish"} => r.sp.st = "fulfilled"
           /\ ~r.waiting =>
                r.hp = (IF r.signal.ev = "error" THEN Rejected(r.signal.arg)
                        ELSE Fulfilled(Undefined))

C11_Witness ==
    \E i \in Invocations :
      /\ inv[i].signal = [ev |-> "error", arg |-> Err("oh no")]
      /\ inv[i].emits = 2
      /\ inv[i].ignored = 1
      /\ inv[i].sp = Rejected(Err("oh no"))
      /\ inv[i].hp = Rejected(Err("oh no"))

\* C12: when the stream already reports writableEnded at the call of the
\* completion awaiter, the awaiter completes at once with success and no
\* listener is ever attached to the stream.
C12_FastPath ==
    \A i \in Invocations :
      LET r == inv[i] IN
        (r.observed.at = "called" /\ r.observed.ended)
        => /\ r.sp.st = "fulfilled"
           /\ r.listeners = {}
           /\ ~r.isComplete
           /\ r.completions = 0
           /\ r.signal.ev = "none"

C12_Witness ==
    \E i \in Invocations :
      /\ inv[i].observed = [at |-> "called", ended |-> TRUE, errored |-> FALSE]
      /\ inv[i].emits = 2
      /\ inv[i].listeners = {}
      /\ inv[i].pc = "done"
      /\ inv[i].outcome = Fulfilled(Undefined)

\* C13: a response stream that is already in a terminal state (finished,
\* ended or errored) when the completion awaiter starts observing it yields
\* completion with no further waiting.
C13_TerminalAtObservation ==
    \A i \in Invocations :
      LET r == inv[i] IN
        (r.observed.at = "called" /\ (r.observed.ended \/ r.observed.errored))
        => IsSettled(r.sp)

\* C14: in the HTTP path, when the user handler succeeds, the flush is not
\* started and the invocation does not finish before the response stream has
\* reached a terminal state (already ended, or a notification received).
C14_FlushAfterStream ==
    \A i \in Invocations :
      LET r == inv[i] IN
        (r.kind = "http" /\ r.ret.st = "fulfilled" /\ Started(r))
        => /\ IsSettled(r.sp)
           /\ r.observed.at = "called"
           /\ r.observed.ended \/ r.signal.ev # "none"
           /\ r.writableEnded \/ r.errored

C14_Witness ==
    \E i \in Invocations :
      /\ inv[i].kind = "http"
      /\ inv[i].ret.st = "fulfilled"
      /\ inv[i].pc = "flushing"
      /\ inv[i].signal.ev = "finish"
      /\ ~inv[i].observed.ended

\* C15: if the flush exceeds the timeout exactly one line is logged for the
\* invocation, 'Delivery may be unsuccessful: ' followed by the flush
\* error's message; when the flush succeeds no line is logged.
LogsBy(i) == SelectSeq(logged, LAMBDA l : l.by = i)

C15_OneLogLine ==
    \A i \in Invocations :
      LET r == inv[i] IN
        /\ r.pc # "done" => LogsBy(i) = <<>>
        /\ r.pc = "done" =>
             /\ r.flushRes \in {"ok", "timeout"}
             /\ r.flushRes = "ok" => LogsBy(i) = <<>>
             /\ r.flushRes = "timeout" =>
                  /\ Len(LogsBy(i)) = 1
                  /\ LogsBy(i)[1].line =
                       <<"Delivery may be unsuccessful: ",
                         <<"flush timed out after ", wrapped.flushTimeoutMs, "ms">>>>

C15_Witness ==
    \E i \in Invocations :
      /\ inv[i].pc = "done"
      /\ inv[i].flushRes = "timeout"
      /\ wrapped.flushTimeoutMs = CUSTOM_TIMEOUT_MS
      /\ Len(logged) = 1

\* C16: every invocation of a wrapped HTTP handler records the request under
\* 'request' and every invocation of a wrapped event handler records the
\* event under 'cloudevent', exactly once and before session start and
\* handler invocation.
C16_MetadataFirst ==
    \A i \in Invocations :
      LET r == inv[i] IN
        r.pc # "idle"
        => /\ Count(r.trace, "addMetadata") = 1
           /\ r.trace[1] = "addMetadata"
           /\ Before(r.trace, "addMetadata", "startSession")
           /\ Before(r.trace, "addMetadata", "handler")
           /\ r.kind = "http" => metadata = [request |-> i, cloudevent |-> 0]
           /\ r.kind = "event" => metadata = [request |-> 0, cloudevent |-> i]

C16_Witness ==
    \E i \in Invocations :
      /\ inv[i].kind = "event"
      /\ inv[i].trace = <<"addMetadata", "startSession", "handler">>
      /\ metadata.cloudevent = i

\* C17: an event handler declaring at most one parameter is used as it is:
\* no completion callback is passed to it and the outcome is its return
\* value, or the resolution or rejection of the future it returns.
HandlerOutcome(r) == IF r.ret.st = "threw" THEN Rejected(r.ret.v) ELSE r.ret

C17_ReturnBasedAsIs ==
    \A i \in Invocations :
      LET r == inv[i] IN
        (r.kind = "event" /\ r.length <= 1 /\ r.pc # "idle")
        => /\ ~r.promisified
           /\ r.cbCalls = 0
           /\ r.first.by \in {"none", "throw", "future"}
           /\ r.ret.st \in {"none", "pending"} => r.hp = Pending
           /\ IsSettled(r.hp) => r.hp = HandlerOutcome(r)
           /\ r.pc = "done" => r.outcome = HandlerOutcome(r)

C17_Witness ==
    \E i \in Invocations :
      /\ inv[i].kind = "event"
      /\ inv[i].length = 1
      /\ inv[i].pc = "done"
      /\ inv[i].ret = Fulfilled(Null)
      /\ inv[i].outcome = Fulfilled(Null)

\* C18: for every invocation whose handler settles and, in the HTTP path,
\* whose response stream reaches a terminal state, the future returned by
\* the wrapped function eventually settles.
HandlerSettled(r) ==
    \/ r.ret.st \in {"fulfilled", "rejected", "threw"}
    \/ r.cbCalls > 0
    \/ r.first.by = "isPromise"

StreamTerminal(r) == r.writableEnded \/ r.errored

C18_NeverHangs ==
    \A i \in Invocations :
      (HandlerSettled(inv[i]) /\ (inv[i].kind = "http" => StreamTerminal(inv[i])))
      ~> (inv[i].pc = "done")

\* What does hold: once the handler's promise as execute awaits it has
\* settled, the invocation ends, the wait on the flush being bounded.
FlushIsBounded ==
    \A i \in Invocations :
      (inv[i].pc = "running" /\ IsSettled(inv[i].hp)) ~> (inv[i].pc = "done")

IsAbsoluteUrl(u) ==
    \E k \in 2..(Len(u) - 2) :
      /\ SubSeq(u, k, k + 2) = <<":", "/", "/">>
      /\ \A j \in 1..(k - 1) : u[j] \in Letters

ClaimedPort(r) ==
    IF ~r.connection.present \/ r.connection.port \in {0, 80, 443}
    THEN <<>>
    ELSE <<":">> \o Decimal(r.connection.port)

ClaimedHost(r) ==
    LET h == IF r.hostname # <<>> THEN r.hostname
             ELSE IF r.host # <<>> THEN r.host ELSE r.headerHost
    IN IF \E k \in 1..Len(h) :
            /\ h[k] = ":"
            /\ k < Len(h)
            /\ \A j \in (k + 1)..Len(h) : IsDigit(h[j])
       THEN SubSeq(h, 1, (CHOOSE k \in 1..Len(h) :
                            /\ h[k] = ":"
                            /\ k < Len(h)
                            /\ \A j \in (k + 1)..Len(h) : IsDigit(h[j])) - 1)
       ELSE h

UrlOfRelative ==
    (info.t = "info" /\ ~IsAbsoluteUrl(req.url))
    => info.url = protocol(req) \o <<":", "/", "/">> \o ClaimedHost(req)
                  \o ClaimedPort(req) \o req.url

UrlOfAbsolute ==
    (info.t = "info" /\ IsAbsoluteUrl(req.url)) => info.url = req.url

UrlOfExample ==
    (/\ info.t = "info"
     /\ req.protocol = [defined |-> TRUE, s |-> HTTP]
     /\ req.hostname = ExampleCom
     /\ req.url = PathAB
     /\ portNumber(req) = 0)
    => info.url = HTTP \o <<":", "/", "/">> \o ExampleCom \o PathAB

C20_UrlReconstruction == UrlOfRelative /\ UrlOfAbsolute /\ UrlOfExample

\* C21: a route-parameters collection holding only the placeholder key 0
\* gives params undefined; the route parameters other than the placeholder
\* key are preserved in params, the placeholder key being stripped.
C21_PlaceholderStripped ==
    (info.t = "info" /\ req.params.t = "object")
    => LET given == req.params.v
           kept == (DOMAIN given) \ {"0"}
       IN /\ DOMAIN given = {"0"} => info.params.t = "undefined"
          /\ kept # {} =>
               /\ info.params.t = "object"
               /\ DOMAIN info.params.v = kept
               /\ \A k \in kept : info.params.v[k] = given[k]

C21_Witness ==
    /\ info.t = "info"
    /\ req.params.t = "object"
    /\ DOMAIN req.params.v = {"0"}
    /\ req.params.v["0"] = Undefined
    /\ info.params.t = "undefined"

\* C22: within one invocation startSession, when it happens, precedes the
\* call of the handler; the error report, when there is one, is submitted
\* after the handler has failed and before the flush begins; the flush ends
\* before the outcome is delivered to the caller.
C22_TotalOrder ==
    /\ [](\A i \in Invocations :
            LET r == inv[i] IN
              /\ Before(r.trace, "startSession", "handler")
              /\ Before(r.trace, "handler", "notify")
              /\ Before(r.trace, "notify", "flush")
              /\ Before(r.trace, "flush", "return")
              /\ Count(r.trace, "notify") > 0 =>
                   (Count(r.trace, "handler") = 1 /\ r.hp.st = "rejected")
              /\ Count(r.trace, "return") > 0 =>
                   (Count(r.trace, "flush") = 1 /\ r.flushRes # "none")
              /\ IsSettled(r.outcome) <=> Count(r.trace, "return") = 1
              /\ r.pc = "flushing" => (r.flushRes = "none" /\ ~IsSettled(r.outcome)))
    /\ [][\A i \in Invocations :
            Len(ReportsBy(i))' > Len(ReportsBy(i))
            => /\ inv[i].hp.st = "rejected"
               /\ inv[i].pc = "running"
               /\ inv'[i].pc = "flushing"]_vars

C22_Witness ==
    \E i \in Invocations :
      inv[i].trace = <<"addMetadata", "startSession", "handler", "notify",
                       "flush", "log", "return">>

\* C23: with invocations interleaved on one client, each performs its own
\* single startSession (when enabled) and its own single flush, reports only
\* its own handler's error, and its outcome is its own handler's outcome.
C23_SelfContained ==
    \A i \in Invocations :
      LET r == inv[i] IN
        /\ Count(r.trace, "startSession")
             = (IF r.pc # "idle" /\ r.sawTrack THEN 1 ELSE 0)
        /\ Count(r.trace, "flush") = (IF Started(r) THEN 1 ELSE 0)
        /\ Len(ReportsBy(i)) = (IF Started(r) /\ r.hp.st = "rejected" THEN 1 ELSE 0)
        /\ \A k \in DOMAIN ReportsBy(i) :
             /\ ReportsBy(i)[k].error = r.hp.v
             /\ ReportsBy(i)[k].error = ErrorOf(i)
        /\ Started(r) => r.result = r.hp
        /\ r.pc = "done" => r.outcome = r.hp
        /\ r.hp.st = "rejected" => r.hp.v = ErrorOf(i)

C23_Witness ==
    /\ inv[1].pc = "done"
    /\ inv[2].pc = "done"
    /\ inv[1].outcome = Rejected(ErrorOf(1))
    /\ inv[2].outcome = Fulfilled(Undefined)
    /\ Len(notified) = 1
    /\ inv[1].trace = <<"addMetadata", "startSession", "handler", "notify",
                        "flush", "return">>
    /\ inv[2].trace = <<"addMetadata", "startSession", "handler", "flush",
                        "log", "return">>
    /\ logged[1].by = 2
    /\ notified[1].by = 1
    /\ notified[1].metadata[Namespace(wrapped.kind)] = 2

\* C26: the 'request' or 'cloudevent' metadata the client holds when an
\* error report is created for a failed invocation is the snapshot recorded
\* by that same invocation, also when another invocation has started in
\* between.
C26_ReportCarriesOwnSnapshot ==
    \A k \in DOMAIN notified :
      notified[k].metadata[Namespace(wrapped.kind)] = notified[k].by

\* C24: if startSession() throws, the wrapped function's future rejects with
\* that error, the handler is never invoked, and the error report and the
\* flush still run as for any failure of the handler.
SessionThrew(r) == startSessionThrows /\ Count(r.trace, "startSession") = 1

C24_SessionFailureReportedAndFlushed ==
    \A i \in Invocations :
      LET r == inv[i] IN
        (SessionThrew(r) /\ r.pc = "done")
        => /\ r.outcome = Rejected(Err("session"))
           /\ Count(r.trace, "handler") = 0
           /\ Count(r.trace, "flush") = 1
           /\ (config.autoDetectErrors /\ config.unhandledExceptions)
                => Len(ReportsBy(i)) = 1

\* C24 as the code has it: startSession() is called before the try block,
\* so its error ends execute at once: the future rejects with it, the
\* handler is not invoked, nothing is reported and the flush is not called.
C24_SessionFailureEndsInvocation ==
    \A i \in Invocations :
      LET r == inv[i] IN
        SessionThrew(r)
        => /\ r.pc = "done"
           /\ r.outcome = Rejected(Err("session"))
           /\ r.trace = <<"addMetadata", "startSession">>
           /\ r.hstage = "none"
           /\ ReportsBy(i) = <<>>
           /\ r.flushRes = "none"
           /\ LogsBy(i) = <<>>

C24_Witness ==
    \E i \in Invocations :
      /\ SessionThrew(inv[i])
      /\ inv[i].pc = "done"
      /\ config.autoDetectErrors
      /\ config.unhandledExceptions
      /\ notified = <<>>

\* C25: the return value of a callback-based handler that is not future-like
\* (undefined, null, a number, a string, a plain object) has no influence:
\* the invocation stays pending until the completion callback is invoked,
\* and the callback alone determines the outcome.
ReturnedPlainValue(r) == CallbackBased(r) /\ r.ret.st = "value"

CallbackAloneDecides(r) ==
    /\ r.cbCalls = 0 => (r.hp = Pending /\ r.pc = "running")
    /\ IsSettled(r.hp) => r.first.by = "callback"

C25_ReturnValueIgnored ==
    \A i \in Invocations :
      ReturnedPlainValue(inv[i]) => CallbackAloneDecides(inv[i])

\* What does hold: C25 for every such value but null.
ReturnIgnoredUnlessNull ==
    \A i \in Invocations :
      (ReturnedPlainValue(inv[i]) /\ inv[i].ret.v # Null)
      => CallbackAloneDecides(inv[i])

\* C27: in the HTTP path, when the handler throws or rejects with E, the
\* wrapper does not wait for the response: no listener is attached, the
\* error is reported (subject to configuration), the flush runs and the
\* wrapped function rejects with E, even if the response never reaches a
\* terminal state.
HandlerFailed(r) == r.kind = "http" /\ r.ret.st \in {"threw", "rejected"}

C27_NoWaitOnFailure ==
    \A i \in Invocations :
      LET r == inv[i] IN
        HandlerFailed(r)
        => /\ r.listeners = {}
           /\ r.observed.at = "never"
           /\ ~r.waiting
           /\ r.sp = Pending
           /\ (r.ret.st = "threw" \/ r.relayed) => r.hp = Rejected(r.ret.v)
           /\ Started(r) =>
                /\ r.result = Rejected(r.ret.v)
                /\ Count(r.trace, "flush") = 1
                /\ Len(ReportsBy(i))
                     = (IF r.sawNotify.autoDetectErrors
                           /\ r.sawNotify.unhandledExceptions THEN 1 ELSE 0)
                /\ \A k \in DOMAIN ReportsBy(i) : ReportsBy(i)[k].error = r.ret.v
           /\ r.pc = "done" => r.outcome = Rejected(r.ret.v)

C27_Witness ==
    \E i \in Invocations :
      /\ HandlerFailed(inv[i])
      /\ inv[i].ret = Rejected(Err("oh no"))
      /\ inv[i].pc = "done"
      /\ inv[i].outcome = Rejected(Err("oh no"))
      /\ ~inv[i].writableEnded
      /\ ~inv[i].errored
      /\ inv[i].emits = 0
      /\ Len(notified) = 1

\* C28: in the HTTP path, when the handler succeeds but the first terminal
\* notification of the response is an error S, the invocation fails as if
\* the handler had failed: S is reported as an unhandled error (when both
\* flags are on), the flush runs once and the wrapped function rejects
\* with S.
StreamFailed(r) ==
    r.kind = "http" /\ r.ret.st = "fulfilled" /\ r.signal.ev = "error"

C28_StreamErrorIsFailure ==
    \A i \in Invocations :
      LET r == inv[i]
          S == r.signal.arg
      IN StreamFailed(r)
         => /\ r.sp = Rejected(S)
            /\ ~r.waiting => r.hp = Rejected(S)
            /\ Started(r) =>
                 /\ r.result = Rejected(S)
                 /\ Count(r.trace, "flush") = 1
                 /\ Len(ReportsBy(i))
                      = (IF r.sawNotify.autoDetectErrors
                            /\ r.sawNotify.unhandledExceptions THEN 1 ELSE 0)
                 /\ \A k \in DOMAIN ReportsBy(i) :
                      /\ ReportsBy(i)[k].error = S
                      /\ ReportsBy(i)[k].unhandled
                      /\ ReportsBy(i)[k].handledState = HandledState
            /\ r.pc = "done" => r.outcome = Rejected(S)

C28_Witness ==
    \E i \in Invocations :
      /\ StreamFailed(inv[i])
      /\ inv[i].signal.arg = Err("abcxyz")
      /\ inv[i].ret = Fulfilled(Str("xyz"))
      /\ inv[i].pc = "done"
      /\ inv[i].outcome = Rejected(Err("abcxyz"))
      /\ Len(notified) = 1
      /\ notified[1].error = Err("abcxyz")

\* C29: a callback-based handler that throws E before invoking its callback
\* makes the invocation fail with E, reported and re-raised like any handler
\* error; if it throws after having invoked the callback, the callback's
\* settlement stands and the thrown error is ignored.
CallbackHandlerThrew(r) == CallbackBased(r) /\ r.ret.st = "threw"

C29_ThrowInCallbackHandler ==
    \A i \in Invocations :
      LET r == inv[i]
          E == r.ret.v
      IN CallbackHandlerThrew(r)
         => /\ r.first.by \in {"throw", "callback"}
            /\ r.first.by = "throw" =>
                 /\ r.hp = Rejected(E)
                 /\ Started(r) =>
                      /\ Len(ReportsBy(i))
                           = (IF r.sawNotify.autoDetectErrors
                                 /\ r.sawNotify.unhandledExceptions THEN 1 ELSE 0)
                      /\ \A k \in DOMAIN ReportsBy(i) : ReportsBy(i)[k].error = E
                 /\ r.pc = "done" => r.outcome = Rejected(E)
            /\ r.first.by = "callback" =>
                 /\ r.hp = CallbackOutcome(r.first.args[1], r.first.args[2])
                 /\ r.pc = "done" =>
                      r.outcome = CallbackOutcome(r.first.args[1], r.first.args[2])
            /\ r.cbCalls = 0 => r.first.by = "throw"

C29_Witness ==
    \E i \in Invocations :
      /\ CallbackHandlerThrew(inv[i])
      /\ inv[i].first.by = "callback"
      /\ inv[i].pc = "done"
      /\ inv[i].outcome = Fulfilled(Str("xyz"))
      /\ notified = <<>>
      /\ config.autoDetectErrors
      /\ config.unhandledExceptions

====
